---- MODULE Spec2Model ----
(***************************************************************************)
(* Download queue of YTMusic-DL: QueueManager (src/queue_manager.py), the  *)
(* DownloadWorker control loop and AudioDownloader.download with its       *)
(* ProgressHook (src/downloader.py).                                       *)
(*                                                                         *)
(* Scheduling.  The worker coroutine and the _download_item tasks share    *)
(* one asyncio event loop: a coroutine keeps the loop until it awaits.     *)
(* AudioDownloader.download runs on executor threads, and the manager's    *)
(* public operations are called from request/handler threads; both         *)
(* interleave freely with the loop.  Every manager operation is atomic     *)
(* under QueueManager._lock (a non-reentrant threading.Lock).              *)
(***************************************************************************)
EXTENDS Integers, Sequences, FiniteSets, Bags, TLC

\* ---------------------------------------------------------------- bounds
MaxItems == 2       \* items ever created (ids 1..MaxItems)
MaxDispatch == 2    \* _download_item tasks tracked at the same time
MaxLimit == 2       \* configured max_concurrent_downloads ranges over 1..MaxLimit
MaxRetry == 1       \* retry_count is followed up to MaxRetry
MaxObservers == 2   \* callbacks registered at the same time
MaxLoops == 2       \* _process_queue tasks counted

\* the progress values the engine's events lead the hook to compute
Progresses == {0, 40}

IDs == 1..MaxItems

\* ------------------------------------------------- config.DownloadStatus
WAITING == "waiting"
PROCESSING == "processing"
DOWNLOADING == "downloading"
CONVERTING == "converting"
DONE == "done"
ERROR == "error"
CANCELLED == "cancelled"

Statuses == {WAITING, PROCESSING, DOWNLOADING, CONVERTING, DONE, ERROR, CANCELLED}

VARIABLES
    queue,          \* QueueManager.queue: sequence of QueueItem records
    next_id,        \* the next fresh uuid of QueueItem.id
    current_tasks,  \* QueueManager._current_tasks: id -> "none" | "false" | "true"
    dispatches,     \* bag of _download_item tasks [id, pc, asked]
    worker_pc,      \* DownloadWorker._process_queue: idle | check | admit | sleep
    limit,          \* settings.max_concurrent_downloads
    lock,           \* QueueManager._lock: "free", or "stuck" (held for ever)
    callbacks,      \* QueueManager.callbacks: the registered callbacks in order, each
                    \* by what it does when called: "reads" (it calls back into the
                    \* manager), "raises" (an Exception) or "returns"
    last_call,      \* the manager call made by the last step and what it returned
                    \* (a history variable, kept only when calls are traced)
    cancelled_waiting, \* ids of the queued items that cancel_all found Waiting
                    \* (a history variable, kept only when it is recorded)
    exported,       \* the export file: whether it was written, and its item dicts
    tracking,       \* TRUE when progress, error_message and retry_count of the
                    \* items are followed; FALSE leaves them at their defaults
                    \* (no operation of the program branches on them)
    snapshot,       \* the list a caller got from get_queue: the items it refers
                    \* to (refs, by id) and their fields when it was returned
    loops,          \* number of _process_queue tasks that were started
    file_path,      \* QueueItem.file_path (and file_size) of the item object of
                    \* each id: "" or "written"
    completed_at,   \* ids of the item objects whose completed_at is set (a
                    \* timestamp, followed only when it is recorded)
    event_loop      \* the asyncio event loop of the worker's tasks: "none" before
                    \* the worker is started, "running", "until_started" (run by
                    \* run_until_complete(worker.start())) or "closed"

vars == <<queue, next_id, current_tasks, dispatches, worker_pc, limit, lock,
          callbacks, last_call, cancelled_waiting, exported, tracking, snapshot,
          loops, file_path, event_loop,
          completed_at>>

\* ------------------------------------------------------------- helpers
NoCall == [op |-> "none", id |-> 0, val |-> "none", invoked |-> {}, ended |-> "returned"]

Untraced == [op |-> "untraced", id |-> 0, val |-> "none", invoked |-> {}, ended |-> "returned"]

\* the number of registered callbacks that call back into the manager
observers == Cardinality({k \in 1..Len(callbacks) : callbacks[k] = "reads"})

\* a _notify_callbacks that lets the exception of a callback out
notify_callbacks_uncaught(cbs, holding_lock) ==
    LET stops(j) == cbs[j] = "raises" \/ (holding_lock /\ cbs[j] = "reads")
        last == {k \in 1..Len(cbs) : stops(k) /\ \A j \in 1..(k - 1) : ~stops(j)}
    IN  [invoked |-> {k \in 1..Len(cbs) : \A j \in 1..(k - 1) : ~stops(j)},
         blocked |-> \E k \in last : cbs[k] = "reads",
         propagated |-> \E k \in last : cbs[k] = "raises"]

\* QueueManager._notify_callbacks: the callbacks are called in order and an
\* Exception of one is caught; a callback that calls back into the manager
\* while the caller holds _lock blocks on the lock for ever.  The result: the
\* positions of the callbacks that were invoked, whether the call blocks, and
\* whether an exception reaches the caller
notify_callbacks(cbs, holding_lock) ==
    LET stops(j) == holding_lock /\ cbs[j] = "reads"
    IN  [invoked |-> {k \in 1..Len(cbs) : \A j \in 1..(k - 1) : ~stops(j)},
         blocked |-> \E k \in 1..Len(cbs) : stops(k),
         propagated |-> FALSE]

\* no notification was made
NoNotify == [invoked |-> {}, blocked |-> FALSE, propagated |-> FALSE]

\* the calling thread blocks before any notification: it acquires the lock
\* it already holds
SelfDeadlock == [invoked |-> {}, blocked |-> TRUE, propagated |-> FALSE]

\* the record of a call that returns val unless it blocks or its notification
\* n lets an exception out
Notified(op, id, val, n) ==
    IF last_call = Untraced THEN Untraced
    ELSE [op |-> op, id |-> id, invoked |-> n.invoked,
          val |-> IF n.blocked THEN "blocked"
                  ELSE IF n.propagated THEN "raised" ELSE val,
          ended |-> IF n.blocked THEN "blocked"
                    ELSE IF n.propagated THEN "raised" ELSE "returned"]

Call(op, id, val) == Notified(op, id, val, NoNotify)

Step == IF last_call = Untraced THEN Untraced ELSE NoCall

Unrecorded == {0}

Remember(ids) == IF cancelled_waiting = Unrecorded THEN Unrecorded ELSE ids

\* QueueManager.update_item_status, its timestamp: `item.completed_at =
\* datetime.now()` when the item is found and the status is Done, Error or
\* Cancelled
Stamp(id, status) ==
    IF completed_at = Unrecorded
           \/ (\A k \in 1..Len(queue) : queue[k].id # id)
           \/ status \notin {DONE, ERROR, CANCELLED}
    THEN completed_at
    ELSE completed_at \cup {id}

\* positions of a dispatch at which its engine invocation is in flight:
\* download() has set Processing and has not returned
EnginePcs == {"running", "hook_progress", "hook_set", "hook_finished", "hook_cancel"}

\* history of a dispatch: an explicit cancel request raised the flag of its id
\* while its engine invocation was in flight
AskOne(d, ids) ==
    IF d.id \in ids /\ d.pc \in EnginePcs THEN [d EXCEPT !.asked = TRUE] ELSE d

Ask(bag, ids) ==
    IF cancelled_waiting = Unrecorded \/ BagToSet(bag) = {}
    THEN bag
    ELSE LET S == BagToSet(bag)
             copies(e) == IF e \in S THEN bag[e] ELSE 0
         IN  [e \in {AskOne(d, ids) : d \in S} |->
                 copies(e) + (IF e.asked /\ AskOne([e EXCEPT !.asked = FALSE], ids) = e
                              THEN copies([e EXCEPT !.asked = FALSE]) ELSE 0)]

\* a new QueueItem with the defaults of the dataclass; source stands for the
\* descriptor (video_id, title, channel, url, thumbnail)
Item(id) ==
    [id |-> id, status |-> WAITING, progress |-> 0, error_message |-> "",
     retry_count |-> 0, source |-> "", quality |-> "best_opus", is_short |-> FALSE]

\* index of the first item with this id, 0 when there is none
IndexOf(q, id) ==
    IF \E k \in 1..Len(q) : q[k].id = id
    THEN CHOOSE k \in 1..Len(q) : q[k].id = id /\ \A j \in 1..(k - 1) : q[j].id # id
    ELSE 0

RemoveAt(q, k) == [j \in 1..(Len(q) - 1) |-> IF j < k THEN q[j] ELSE q[j + 1]]

\* QueueManager.get_active_downloads
get_active_downloads(q) ==
    Cardinality({k \in 1..Len(q) : q[k].status \in {DOWNLOADING, PROCESSING}})

\* QueueManager.get_pending_count
get_pending_count(q) ==
    Cardinality({k \in 1..Len(q) : q[k].status = WAITING})

\* QueueManager.can_start_download
can_start_download(q, lim) == get_active_downloads(q) < lim

\* a get_next_pending that scans the queue from its end
get_next_pending_last(q) ==
    IF \E k \in 1..Len(q) : q[k].status = WAITING
    THEN CHOOSE k \in 1..Len(q) :
            q[k].status = WAITING /\ \A j \in (k + 1)..Len(q) : q[j].status # WAITING
    ELSE 0

\* QueueManager.get_next_pending: index of the item it returns, 0 for None
get_next_pending(q) ==
    IF \E k \in 1..Len(q) : q[k].status = WAITING
    THEN CHOOSE k \in 1..Len(q) :
            q[k].status = WAITING /\ \A j \in 1..(k - 1) : q[j].status # WAITING
    ELSE 0

\* QueueManager.is_cancelled
is_cancelled(tasks, id) == tasks[id] = "true"

\* an update_item_status that adds an item when it finds none with the id
update_item_status_upsert(q, id, status, error_msg) ==
    LET k == IndexOf(q, id)
    IN  IF k = 0 THEN Append(q, [Item(id) EXCEPT !.status = status])
        ELSE [q EXCEPT ![k].status = status,
                       ![k].error_message =
                            IF tracking /\ error_msg # "" THEN error_msg ELSE @]

\* QueueManager.update_item_status: the first item with the id gets the status,
\* and the message when one is given
update_item_status(q, id, status, error_msg) ==
    LET k == IndexOf(q, id)
    IN  IF k = 0 THEN q
        ELSE [q EXCEPT ![k].status = status,
                       ![k].error_message =
                            IF tracking /\ error_msg # "" THEN error_msg ELSE @]

\* QueueManager.update_item_progress (speed and eta are not followed)
update_item_progress(q, id, progress) ==
    LET k == IndexOf(q, id)
    IN  IF k = 0 \/ ~tracking THEN q ELSE [q EXCEPT ![k].progress = progress]

\* the sum of a sequence of numbers
RECURSIVE Sum(_)
Sum(ns) == IF ns = <<>> THEN 0 ELSE Head(ns) + Sum(Tail(ns))

\* the sum of f over the items of q
SumOver(q, f(_)) == Sum([k \in 1..Len(q) |-> f(q[k])])

\* QueueManager.get_global_progress: the percentage as the fraction
\* percent_n / percent_d, then the completed and the failed count
get_global_progress(q) ==
    IF q = <<>>
    THEN [percent_n |-> 0, percent_d |-> 1, completed |-> 0, failed |-> 0]
    ELSE LET add(it) == IF it.status = DONE THEN 100
                        ELSE IF it.status = ERROR THEN 0
                        ELSE IF it.status # CANCELLED THEN it.progress
                        ELSE 0
             total_progress == SumOver(q, add)
             completed == SumOver(q, LAMBDA it : IF it.status = DONE THEN 1 ELSE 0)
             failed == SumOver(q, LAMBDA it : IF it.status = ERROR THEN 1 ELSE 0)
             active_items == SelectSeq(q, LAMBDA it : it.status \notin {DONE, ERROR, CANCELLED})
         IN  IF active_items # <<>>
             THEN [percent_n |-> total_progress, percent_d |-> Len(q),
                   completed |-> completed, failed |-> failed]
             ELSE [percent_n |-> 100, percent_d |-> 1,
                   completed |-> completed, failed |-> failed]

\* the flag raising of cancel_download / cancel_all: only a registered id
RaiseFlag(tasks, id) ==
    IF tasks[id] # "none" THEN [tasks EXCEPT ![id] = "true"] ELSE tasks

\* _notify_callbacks called while the calling thread still holds _lock: a
\* callback that reads the manager (get_queue) blocks on the lock for ever
NotifyInsideLock ==
    IF notify_callbacks(callbacks, TRUE).blocked THEN "stuck" ELSE "free"

\* get_queue has not been called
NoSnapshot == [taken |-> FALSE, refs |-> <<>>, seen |-> <<>>]

\* no export file has been written
NoFile == [written |-> FALSE, items |-> <<>>]

\* ---------------------------------------------------------------- Init
Constructed ==
    /\ queue = <<>>
    /\ next_id = 1
    /\ current_tasks = [i \in IDs |-> "none"]
    /\ dispatches = EmptyBag
    /\ worker_pc = "idle"
    /\ limit \in 1..MaxLimit
    /\ lock = "free"
    /\ callbacks = <<>>
    /\ exported = NoFile
    /\ snapshot = NoSnapshot
    /\ file_path = [i \in IDs |-> ""]
    /\ event_loop = "none"
    /\ loops = 0

Init ==
    /\ Constructed /\ last_call = Untraced /\ cancelled_waiting = Unrecorded /\ tracking = FALSE
    /\ completed_at = Unrecorded

InitCalls ==
    /\ Constructed /\ last_call = NoCall /\ cancelled_waiting = Unrecorded /\ tracking = FALSE
    /\ completed_at = Unrecorded

InitCancelled ==
    /\ Constructed /\ last_call = Untraced /\ cancelled_waiting = {} /\ tracking = FALSE
    /\ completed_at = Unrecorded

\* progress, error_message and retry_count of the items followed, with
\* settings.max_concurrent_downloads set to 1
InitTracked ==
    /\ Constructed /\ last_call = Untraced /\ cancelled_waiting = Unrecorded /\ tracking = TRUE
    /\ completed_at = Unrecorded
    /\ limit = 1

\* the timestamp completed_at of the items recorded
InitTimestamps ==
    /\ Constructed /\ last_call = Untraced /\ cancelled_waiting = Unrecorded /\ tracking = FALSE
    /\ completed_at = {}

\* the calls recorded, with settings.max_concurrent_downloads set to 1
InitManager == InitCalls /\ limit = 1

\* ------------------------------------------------------ manager calls
\* QueueManager.add_callback
add_callback ==
    /\ observers = 0
    /\ callbacks' = Append(callbacks, "reads")
    /\ last_call' = Call("add_callback", 0, "none")
    /\ UNCHANGED <<completed_at, event_loop, file_path, snapshot, loops, exported, tracking, cancelled_waiting, queue, next_id, current_tasks, dispatches, worker_pc, limit, lock>>

\* QueueManager.add_item with a new QueueItem
add_item ==
    /\ lock = "free"
    /\ next_id <= MaxItems
    /\ queue' = Append(queue, Item(next_id))
    /\ next_id' = next_id + 1
    /\ last_call' = Notified("add_item", next_id, "id", notify_callbacks(callbacks, FALSE))
    /\ UNCHANGED <<completed_at, event_loop, file_path, snapshot, loops, exported, tracking, cancelled_waiting, current_tasks, dispatches, worker_pc, limit, lock, callbacks>>

\* a list of n items that all carry the same id
SameIdItems(first, n) == [k \in 1..n |-> Item(first)]

\* the new QueueItems with the ids first..(first + n - 1), in this order
NewItems(first, n) == [k \in 1..n |-> Item(first + k - 1)]

\* QueueManager.add_items with a list of n new QueueItems
add_items(n) ==
    /\ lock = "free"
    /\ next_id + n - 1 <= MaxItems
    /\ queue' = queue \o NewItems(next_id, n)
    /\ next_id' = next_id + n
    /\ last_call' = Notified("add_items", next_id, n, notify_callbacks(callbacks, FALSE))
    /\ UNCHANGED <<completed_at, event_loop, file_path, snapshot, loops, exported, tracking, cancelled_waiting, current_tasks, dispatches, worker_pc, limit, lock, callbacks>>

\* a cancel_download without the status test
CancelIndexAnyStatus(q, id) ==
    IF \E k \in 1..Len(q) : q[k].id = id
    THEN CHOOSE k \in 1..Len(q) : q[k].id = id /\ \A j \in 1..(k - 1) : q[j].id # id
    ELSE 0

\* the item cancel_download acts on: the first with the id and an active status
CancelIndex(q, id) ==
    IF \E k \in 1..Len(q) : q[k].id = id /\ q[k].status \in {DOWNLOADING, PROCESSING}
    THEN CHOOSE k \in 1..Len(q) :
            /\ q[k].id = id /\ q[k].status \in {DOWNLOADING, PROCESSING}
            /\ \A j \in 1..(k - 1) :
                  ~(q[j].id = id /\ q[j].status \in {DOWNLOADING, PROCESSING})
    ELSE 0

\* QueueManager.cancel_download
cancel_download(id) ==
    /\ lock = "free"
    /\ LET k == CancelIndex(queue, id)
       IN  IF k = 0
           THEN /\ last_call' = Call("cancel_download", id, "false")
                /\ UNCHANGED <<queue, current_tasks, lock, dispatches>>
           ELSE /\ queue' = [queue EXCEPT ![k].status = CANCELLED]
                /\ current_tasks' = RaiseFlag(current_tasks, id)
                /\ dispatches' = Ask(dispatches, {i \in {id} : current_tasks[i] # "none"})
                /\ lock' = NotifyInsideLock
                /\ last_call' = Notified("cancel_download", id, "true", notify_callbacks(callbacks, TRUE))
    /\ UNCHANGED <<completed_at, event_loop, file_path, snapshot, loops, exported, tracking, cancelled_waiting, next_id, worker_pc, limit, callbacks>>

\* the statuses cancel_all acts on
CancelAllStatuses == {DOWNLOADING, PROCESSING, WAITING}

\* QueueManager.cancel_all
cancel_all ==
    /\ lock = "free"
    /\ queue' = [k \in 1..Len(queue) |->
                    IF queue[k].status \in CancelAllStatuses
                    THEN [queue[k] EXCEPT !.status = CANCELLED]
                    ELSE queue[k]]
    /\ current_tasks' = [i \in DOMAIN current_tasks |->
                    IF /\ current_tasks[i] # "none"
                       /\ \E k \in 1..Len(queue) :
                             queue[k].id = i /\ queue[k].status \in CancelAllStatuses
                    THEN "true"
                    ELSE current_tasks[i]]
    /\ dispatches' = Ask(dispatches, {i \in DOMAIN current_tasks :
                    /\ current_tasks[i] # "none"
                    /\ \E k \in 1..Len(queue) :
                          queue[k].id = i /\ queue[k].status \in CancelAllStatuses})
    /\ last_call' = Notified("cancel_all", 0, "none", notify_callbacks(callbacks, FALSE))
    /\ cancelled_waiting' = Remember(cancelled_waiting \cup
            {queue[k].id : k \in {j \in 1..Len(queue) : queue[j].status = WAITING}})
    /\ UNCHANGED <<completed_at, event_loop, file_path, snapshot, loops, exported, tracking, next_id, worker_pc, limit, lock, callbacks>>

\* QueueManager.remove_item: cancel_download is called with _lock already held
\* when the item is Downloading, and _notify_callbacks runs inside the lock
remove_item(id) ==
    /\ lock = "free"
    /\ LET k == IndexOf(queue, id)
       IN  IF k = 0
           THEN /\ last_call' = Call("remove_item", id, "false")
                /\ UNCHANGED <<queue, lock>>
           ELSE IF queue[k].status = DOWNLOADING
           THEN /\ lock' = "stuck"
                /\ last_call' = Notified("remove_item", id, "true", SelfDeadlock)
                /\ UNCHANGED queue
           ELSE /\ queue' = RemoveAt(queue, k)
                /\ lock' = NotifyInsideLock
                /\ last_call' = Notified("remove_item", id, "true", notify_callbacks(callbacks, TRUE))
    /\ cancelled_waiting' = Remember(cancelled_waiting \cap {queue'[k].id : k \in 1..Len(queue')})
    /\ UNCHANGED <<completed_at, event_loop, file_path, snapshot, loops, exported, tracking, next_id, current_tasks, dispatches, worker_pc, limit, callbacks>>

\* a retry that keeps the progress and the message of the item
RetriedStatusOnly(it) ==
    IF tracking
    THEN [it EXCEPT !.status = WAITING, !.retry_count = @ + 1]
    ELSE [it EXCEPT !.status = WAITING]

\* the reset that retry_item and retry_all_failed apply to an Error item
Retried(it) ==
    IF tracking
    THEN [it EXCEPT !.status = WAITING, !.progress = 0, !.error_message = "",
                    !.retry_count = @ + 1]
    ELSE [it EXCEPT !.status = WAITING]

\* retry_count is followed up to MaxRetry
Countable(it) == ~tracking \/ it.retry_count < MaxRetry

\* QueueManager.retry_item
retry_item(id) ==
    /\ lock = "free"
    /\ LET hit == {k \in 1..Len(queue) : queue[k].id = id /\ queue[k].status = ERROR}
       IN  IF hit = {}
           THEN /\ last_call' = Call("retry_item", id, "false")
                /\ UNCHANGED <<queue, lock>>
           ELSE LET k == CHOOSE k \in hit : \A j \in hit : k <= j
                IN  /\ Countable(queue[k])
                    /\ queue' = [queue EXCEPT ![k] = Retried(queue[k])]
                    /\ lock' = NotifyInsideLock
                    /\ last_call' = Notified("retry_item", id, "true", notify_callbacks(callbacks, TRUE))
    /\ UNCHANGED <<completed_at, event_loop, file_path, snapshot, loops, exported, tracking, cancelled_waiting, next_id, current_tasks, dispatches, worker_pc, limit, callbacks>>

\* QueueManager.retry_all_failed
retry_all_failed ==
    /\ lock = "free"
    /\ \A k \in 1..Len(queue) : queue[k].status = ERROR => Countable(queue[k])
    /\ queue' = [k \in 1..Len(queue) |->
                    IF queue[k].status = ERROR THEN Retried(queue[k]) ELSE queue[k]]
    /\ LET count == Cardinality({k \in 1..Len(queue) : queue[k].status = ERROR})
       IN  last_call' = Notified("retry_all_failed", 0, count,
                                 IF count > 0 THEN notify_callbacks(callbacks, FALSE)
                                 ELSE NoNotify)
    /\ UNCHANGED <<completed_at, event_loop, file_path, snapshot, loops, exported, tracking, cancelled_waiting, next_id, current_tasks, dispatches, worker_pc, limit, lock, callbacks>>

\* a clear_completed that also drops the failed items
CompletedAndFailed == {DONE, CANCELLED, ERROR}

\* the statuses clear_completed removes
Completed == {DONE, CANCELLED}

\* QueueManager.clear_completed
clear_completed ==
    /\ lock = "free"
    /\ queue' = SelectSeq(queue, LAMBDA it : it.status \notin Completed)
    /\ last_call' = Notified("clear_completed", 0, Len(queue'), notify_callbacks(callbacks, FALSE))
    /\ cancelled_waiting' = Remember(cancelled_waiting \cap {queue'[k].id : k \in 1..Len(queue')})
    /\ UNCHANGED <<completed_at, event_loop, file_path, snapshot, loops, exported, tracking, next_id, current_tasks, dispatches, worker_pc, limit, lock, callbacks>>

\* --------------------------------------------- DownloadWorker._process_queue
Task(id, pc) == [id |-> id, pc |-> pc, asked |-> FALSE]

\* asyncio.create_task(self._download_item(item)); tasks beyond MaxDispatch are
\* not tracked
CreateTask(bag, id) ==
    IF BagCardinality(bag) < MaxDispatch
    THEN bag (+) SetToBag({Task(id, "created")})
    ELSE bag

Move(bag, d, pc) == (bag (-) SetToBag({d})) (+) SetToBag({[d EXCEPT !.pc = pc]})

\* DownloadWorker.start: the loop task is created and runs from its first line
WorkerStart ==
    /\ worker_pc = "idle"
    /\ worker_pc' = "check"
    /\ loops' = 1
    /\ event_loop' = "running"
    /\ last_call' = Step
    /\ UNCHANGED <<completed_at, file_path, snapshot, exported, tracking, cancelled_waiting, queue, next_id, current_tasks, dispatches, limit, lock, callbacks>>

\* DownloadWorker.start called while a loop task is running: `_running = True`
\* and one more _process_queue task (counted; its steps are those of the
\* first loop)
StartAgain ==
    /\ worker_pc # "idle"
    /\ loops < MaxLoops
    /\ loops' = loops + 1
    /\ last_call' = Step
    /\ UNCHANGED <<completed_at, event_loop, file_path, snapshot, exported, tracking, cancelled_waiting, queue, next_id, current_tasks, dispatches, worker_pc, limit, lock, callbacks>>

\* `if queue_manager.can_start_download():` else `await asyncio.sleep(0.5)`
WorkerCheck ==
    /\ worker_pc = "check"
    /\ lock = "free"
    /\ worker_pc' = IF can_start_download(queue, limit) THEN "admit" ELSE "sleep"
    /\ last_call' = Step
    /\ UNCHANGED <<completed_at, event_loop, file_path, snapshot, loops, exported, tracking, cancelled_waiting, queue, next_id, current_tasks, dispatches, limit, lock, callbacks>>

\* `item = get_next_pending()`; create_task and straight back to the top of
\* the while loop (no await), or `await asyncio.sleep(1)` when there is none
WorkerAdmit ==
    /\ worker_pc = "admit"
    /\ lock = "free"
    /\ LET k == get_next_pending(queue)
       IN  IF k = 0
           THEN /\ worker_pc' = "sleep"
                /\ UNCHANGED dispatches
           ELSE /\ worker_pc' = "check"
                /\ dispatches' = CreateTask(dispatches, queue[k].id)
    /\ last_call' = Step
    /\ UNCHANGED <<completed_at, event_loop, file_path, snapshot, loops, exported, tracking, cancelled_waiting, queue, next_id, current_tasks, limit, lock, callbacks>>

\* the event loop can run a task other than the control loop: it is running
\* and the control loop is suspended in its sleep, or has ended
LoopFree == worker_pc \in {"sleep", "stopped"} /\ event_loop = "running"

\* the sleep ends; the loop runs its ready callbacks in order, so every task
\* created before the sleep has run its first slice by then
WorkerWake ==
    /\ worker_pc = "sleep"
    /\ event_loop = "running"
    /\ \A d \in BagToSet(dispatches) : d.pc # "created"
    /\ worker_pc' = "check"
    /\ last_call' = Step
    /\ UNCHANGED <<completed_at, event_loop, file_path, snapshot, loops, exported, tracking, cancelled_waiting, queue, next_id, current_tasks, dispatches, limit, lock, callbacks>>

\* ------------------------------------------- DownloadWorker._download_item
\* first slice: `_current_tasks[item.id] = {'cancelled': False}` and the
\* submission of AudioDownloader.download to the executor
TaskStart(d) ==
    /\ LoopFree
    /\ d.pc = "created"
    /\ current_tasks' = [current_tasks EXCEPT ![d.id] = "false"]
    /\ dispatches' = Move(dispatches, d, "submitted")
    /\ last_call' = Step
    /\ UNCHANGED <<completed_at, event_loop, file_path, snapshot, loops, exported, tracking, cancelled_waiting, queue, next_id, worker_pc, limit, lock, callbacks>>

\* after the await: `del queue_manager._current_tasks[item.id]` when present
TaskCleanup(d) ==
    /\ LoopFree
    /\ d.pc = "returned"
    /\ current_tasks' = [current_tasks EXCEPT ![d.id] = "none"]
    /\ dispatches' = dispatches (-) SetToBag({d})
    /\ last_call' = Step
    /\ UNCHANGED <<completed_at, event_loop, file_path, snapshot, loops, exported, tracking, cancelled_waiting, queue, next_id, worker_pc, limit, lock, callbacks>>

\* ------------------------------- AudioDownloader.download (executor thread)
\* `update_item_status(item.id, PROCESSING)`, then the engine is invoked
DownloadBegin(d) ==
    /\ d.pc = "submitted"
    /\ lock = "free"
    /\ queue' = update_item_status(queue, d.id, PROCESSING, "")
    /\ dispatches' = Move(dispatches, d, "running")
    /\ last_call' = Step
    /\ UNCHANGED <<completed_at, event_loop, file_path, snapshot, loops, exported, tracking, cancelled_waiting, next_id, current_tasks, worker_pc, limit, lock, callbacks>>

\* ProgressHook.__call__, first line: the engine reports an event and the hook
\* reads the cancellation flag (without the lock)
HookEnter(d, event) ==
    /\ d.pc = "running"
    /\ dispatches' = Move(dispatches, d,
            IF is_cancelled(current_tasks, d.id) THEN "hook_cancel"
            ELSE IF event = "downloading" THEN "hook_progress" ELSE "hook_finished")
    /\ last_call' = Step
    /\ UNCHANGED <<completed_at, event_loop, file_path, snapshot, loops, exported, tracking, cancelled_waiting, queue, next_id, current_tasks, worker_pc, limit, lock, callbacks>>

\* 'downloading': update_item_progress, then get_item and the status test
HookProgress(d, progress) ==
    /\ d.pc = "hook_progress"
    /\ lock = "free"
    /\ queue' = update_item_progress(queue, d.id, progress)
    /\ LET k == IndexOf(queue, d.id)
       IN  dispatches' = Move(dispatches, d,
              IF k # 0 /\ queue[k].status # DOWNLOADING THEN "hook_set" ELSE "running")
    /\ last_call' = Step
    /\ UNCHANGED <<completed_at, event_loop, file_path, snapshot, loops, exported, tracking, cancelled_waiting, next_id, current_tasks, worker_pc, limit, lock, callbacks>>

\* 'downloading': update_item_status(item_id, DOWNLOADING)
HookSetDownloading(d) ==
    /\ d.pc = "hook_set"
    /\ lock = "free"
    /\ queue' = update_item_status(queue, d.id, DOWNLOADING, "")
    /\ dispatches' = Move(dispatches, d, "running")
    /\ last_call' = Step
    /\ UNCHANGED <<completed_at, event_loop, file_path, snapshot, loops, exported, tracking, cancelled_waiting, next_id, current_tasks, worker_pc, limit, lock, callbacks>>

\* 'finished': update_item_status(item_id, CONVERTING)
HookFinished(d) ==
    /\ d.pc = "hook_finished"
    /\ lock = "free"
    /\ queue' = update_item_status(queue, d.id, CONVERTING, "")
    /\ dispatches' = Move(dispatches, d, "running")
    /\ last_call' = Step
    /\ UNCHANGED <<completed_at, event_loop, file_path, snapshot, loops, exported, tracking, cancelled_waiting, next_id, current_tasks, worker_pc, limit, lock, callbacks>>

\* the status download() records for an exception with this message
FailureStatus(mentions_cancelled) == IF mentions_cancelled THEN CANCELLED ELSE ERROR

\* the hook raised "Download cancelled by user": download's except branch
HookCancelled(d) ==
    /\ d.pc = "hook_cancel"
    /\ lock = "free"
    /\ completed_at' = Stamp(d.id, FailureStatus(TRUE))
    /\ queue' = update_item_status(queue, d.id, FailureStatus(TRUE), "")
    /\ dispatches' = Move(dispatches, d, "returned")
    /\ last_call' = Step
    /\ UNCHANGED <<event_loop, file_path, snapshot, loops, exported, tracking, cancelled_waiting, next_id, current_tasks, worker_pc, limit, lock, callbacks>>

\* extract_info has returned and the final file exists: download writes
\* `item.file_path = ...` and `item.file_size = ...` on the item object
\* itself, taking no lock
DownloadStoreFile(d) ==
    /\ d.pc = "running"
    /\ file_path' = [file_path EXCEPT ![d.id] = "written"]
    /\ dispatches' = Move(dispatches, d, "stored")
    /\ last_call' = Step
    /\ UNCHANGED <<completed_at, event_loop, snapshot, loops, exported, tracking, cancelled_waiting, queue, next_id, current_tasks, worker_pc, limit, lock, callbacks>>

\* extract_info returned info: update_item_status(item.id, DONE), return True
EngineDone(d) ==
    /\ d.pc \in {"running", "stored"}
    /\ lock = "free"
    /\ completed_at' = Stamp(d.id, DONE)
    /\ queue' = update_item_status(queue, d.id, DONE, "")
    /\ dispatches' = Move(dispatches, d, "returned")
    /\ last_call' = Step
    /\ UNCHANGED <<event_loop, file_path, snapshot, loops, exported, tracking, cancelled_waiting, next_id, current_tasks, worker_pc, limit, lock, callbacks>>

\* extract_info raised (or returned nothing): download's except branch
EngineFail(d, mentions_cancelled) ==
    /\ d.pc = "running"
    /\ lock = "free"
    /\ completed_at' = Stamp(d.id, FailureStatus(mentions_cancelled))
    /\ queue' = update_item_status(queue, d.id, FailureStatus(mentions_cancelled),
                                    IF mentions_cancelled THEN "" ELSE "failed")
    /\ dispatches' = Move(dispatches, d, "returned")
    /\ last_call' = Step
    /\ UNCHANGED <<event_loop, file_path, snapshot, loops, exported, tracking, cancelled_waiting, next_id, current_tasks, worker_pc, limit, lock, callbacks>>

\* ---------------------------------------------------------------- Next
ManagerCall ==
    \/ add_callback
    \/ add_item
    \/ \E n \in 0..MaxItems : add_items(n)
    \/ \E id \in IDs : cancel_download(id)
    \/ cancel_all
    \/ \E id \in IDs : remove_item(id)
    \/ \E id \in IDs : retry_item(id)
    \/ retry_all_failed
    \/ clear_completed

WorkerStep ==
    \/ WorkerStart
    \/ WorkerCheck
    \/ WorkerAdmit
    \/ WorkerWake

TaskStep ==
    \E d \in BagToSet(dispatches) :
        \/ TaskStart(d)
        \/ TaskCleanup(d)

ThreadStep ==
    \E d \in BagToSet(dispatches) :
        \/ DownloadBegin(d)
        \/ \E event \in {"downloading", "finished"} : HookEnter(d, event)
        \/ \E progress \in Progresses : HookProgress(d, progress)
        \/ HookSetDownloading(d)
        \/ HookFinished(d)
        \/ HookCancelled(d)
        \/ EngineDone(d)
        \/ \E m \in BOOLEAN : EngineFail(d, m)

Next ==
    \/ ManagerCall
    \/ WorkerStep
    \/ TaskStep
    \/ ThreadStep

Spec == Init /\ [][Next]_vars

\* the same system with the manager calls and their results recorded, with
\* max_concurrent_downloads set to 1
SpecCalls == InitManager /\ [][Next]_vars

\* the same system with the items that cancel_all found Waiting recorded
SpecCancelled == InitCancelled /\ [][Next]_vars

\* ------------------------------------------- the manager driven by its callers
\* QueueManager.update_item_status called by a client (the download thread and
\* the progress hook are its callers)
UpdateStatus(id, status) ==
    /\ lock = "free"
    /\ completed_at' = Stamp(id, status)
    /\ queue' = update_item_status(queue, id, status, "")
    /\ last_call' = Step
    /\ UNCHANGED <<event_loop, file_path, snapshot, loops, exported, tracking, cancelled_waiting, next_id, current_tasks, dispatches, worker_pc, limit, lock, callbacks>>

\* a client's write of the registry: `_current_tasks[id] = {'cancelled': False}`
\* (registered = TRUE) or `del _current_tasks[id]`, for the id of an item that
\* was added
Register(id, registered) ==
    /\ id < next_id
    /\ current_tasks' = [current_tasks EXCEPT ![id] = IF registered THEN "false" ELSE "none"]
    /\ last_call' = Step
    /\ UNCHANGED <<completed_at, event_loop, file_path, snapshot, loops, exported, tracking, cancelled_waiting, queue, next_id, dispatches, worker_pc, limit, lock, callbacks>>

\* the QueueManager object alone, under every sequence of calls
NextManager ==
    \/ ManagerCall
    \/ \E id \in IDs, status \in Statuses : UpdateStatus(id, status)
    \/ \E id \in IDs, registered \in BOOLEAN : Register(id, registered)

SpecManager == InitManager /\ [][NextManager]_vars

\* the manager under the calls of its public operations alone, their results
\* recorded
SpecQueueCalls == InitManager /\ [][ManagerCall]_vars

\* QueueManager.get_queue: `list(self.queue)` under the lock, a new list of
\* the same QueueItem objects
get_queue ==
    /\ lock = "free"
    /\ snapshot' = [taken |-> TRUE,
                    refs |-> [k \in 1..Len(queue) |-> queue[k].id],
                    seen |-> queue]
    /\ last_call' = Call("get_queue", 0, Len(queue))
    /\ UNCHANGED <<completed_at, event_loop, file_path, loops, exported, tracking, cancelled_waiting, queue, next_id, current_tasks, dispatches, worker_pc, limit, lock, callbacks>>

\* the manager under its public calls, with a caller that keeps the list it
\* got from get_queue
NextSnapshot ==
    \/ ManagerCall
    \/ get_queue

SpecSnapshot == InitManager /\ [][NextSnapshot]_vars

\* ------------------------------------------------------------ settings
\* DEFAULT_SETTINGS["max_concurrent_downloads"]
DefaultLimit == 3

\* the clamp of the max_concurrent_downloads setter: max(1, min(5, value))
MinLimit == 1

MaxConcurrent == 5

Clamp(value) ==
    IF value < MinLimit THEN MinLimit
    ELSE IF value > MaxConcurrent THEN MaxConcurrent ELSE value

\* the integers a settings request may carry for the limit
Requested == 0..(MaxConcurrent + 1)

\* `settings.max_concurrent_downloads = value` (the property setter)
set_max_concurrent_downloads(value) ==
    /\ limit' = Clamp(value)
    /\ last_call' = Step
    /\ UNCHANGED <<completed_at, event_loop, file_path, snapshot, loops, exported, tracking, cancelled_waiting, queue, next_id, current_tasks, dispatches, worker_pc, lock, callbacks>>

\* SettingsManager.set('max_concurrent_downloads', value)
settings_set(value) ==
    /\ limit' = value
    /\ last_call' = Step
    /\ UNCHANGED <<completed_at, event_loop, file_path, snapshot, loops, exported, tracking, cancelled_waiting, queue, next_id, current_tasks, dispatches, worker_pc, lock, callbacks>>

\* SettingsManager.update(data) with data['max_concurrent_downloads'] = value
\* (the settings endpoint passes the request body, the settings dialog its
\* slider value)
settings_update(value) ==
    /\ limit' = value
    /\ last_call' = Step
    /\ UNCHANGED <<completed_at, event_loop, file_path, snapshot, loops, exported, tracking, cancelled_waiting, queue, next_id, current_tasks, dispatches, worker_pc, lock, callbacks>>

\* SettingsManager.reset_to_defaults
reset_to_defaults ==
    /\ limit' = DefaultLimit
    /\ last_call' = Step
    /\ UNCHANGED <<completed_at, event_loop, file_path, snapshot, loops, exported, tracking, cancelled_waiting, queue, next_id, current_tasks, dispatches, worker_pc, lock, callbacks>>

\* the manager and the settings after construction, no settings file
InitSettings ==
    /\ queue = <<>>
    /\ next_id = 1
    /\ current_tasks = [i \in IDs |-> "none"]
    /\ dispatches = EmptyBag
    /\ worker_pc = "idle"
    /\ limit = DefaultLimit
    /\ lock = "free"
    /\ callbacks = <<>>
    /\ last_call = Untraced
    /\ cancelled_waiting = Unrecorded
    /\ tracking = FALSE
    /\ exported = NoFile
    /\ snapshot = NoSnapshot
    /\ file_path = [i \in IDs |-> ""]
    /\ event_loop = "none"
    /\ completed_at = Unrecorded
    /\ loops = 0

\* ------------------------------------------------ the calls that take an id
\* QueueManager.get_item: the item with the id, or None
get_item(id) ==
    /\ lock = "free"
    /\ last_call' = Call("get_item", id, IF IndexOf(queue, id) = 0 THEN "none" ELSE "item")
    /\ UNCHANGED <<completed_at, event_loop, file_path, snapshot, loops, exported, tracking, cancelled_waiting, queue, next_id, current_tasks, dispatches, worker_pc, limit, lock, callbacks>>

\* QueueManager.is_cancelled called by a client (the progress hook is its
\* caller); it reads the registry without the lock
IsCancelled(id) ==
    /\ last_call' = Call("is_cancelled", id,
                         IF is_cancelled(current_tasks, id) THEN "true" ELSE "false")
    /\ UNCHANGED <<completed_at, event_loop, file_path, snapshot, loops, exported, tracking, cancelled_waiting, queue, next_id, current_tasks, dispatches, worker_pc, limit, lock, callbacks>>

\* QueueManager.update_item_progress called by a client (the progress hook is
\* its caller)
UpdateProgress(id, progress) ==
    /\ lock = "free"
    /\ queue' = update_item_progress(queue, id, progress)
    /\ last_call' = Notified("update_item_progress", id, "none",
                             notify_callbacks(callbacks, FALSE))
    /\ UNCHANGED <<completed_at, event_loop, file_path, snapshot, loops, exported, tracking, cancelled_waiting, next_id, current_tasks, dispatches, worker_pc, limit, lock, callbacks>>

\* the queues that remain of the items 1..n after some were removed, each item
\* left with any status
RECURSIVE LookupQueues(_)
LookupQueues(n) ==
    IF n = 0 THEN {<<>>}
    ELSE LET shorter == LookupQueues(n - 1)
         IN  shorter \cup {Append(q, [Item(n) EXCEPT !.status = st]) :
                               q \in shorter, st \in Statuses}

\* every id was given to an item; some items were removed since; any of the
\* ids may still be registered by a dispatch, with its flag raised or not
InitLookup ==
    /\ tracking = TRUE
    /\ queue \in LookupQueues(MaxItems)
    /\ next_id = MaxItems + 1
    /\ current_tasks \in [IDs -> {"none", "false", "true"}]
    /\ dispatches = EmptyBag
    /\ worker_pc = "idle"
    /\ limit = 1
    /\ lock = "free"
    /\ callbacks = <<>>
    /\ last_call = NoCall
    /\ cancelled_waiting = Unrecorded
    /\ exported = NoFile
    /\ snapshot = NoSnapshot
    /\ file_path = [i \in IDs |-> ""]
    /\ event_loop = "none"
    /\ completed_at = Unrecorded
    /\ loops = 0

\* one call that takes an id, from each of these states
NextLookup ==
    /\ last_call = NoCall
    /\ \E id \in IDs :
          \/ remove_item(id)
          \/ cancel_download(id)
          \/ retry_item(id)
          \/ get_item(id)
          \/ IsCancelled(id)
          \/ \E progress \in Progresses : UpdateProgress(id, progress)
          \/ \E status \in Statuses : UpdateStatus(id, status)

SpecLookup == InitLookup /\ [][NextLookup]_vars

\* ------------------------------------------------------- notifications
\* what a registered callback does when it is called
Kinds == {"reads", "raises", "returns"}

\* the lists of callbacks add_callback can have built
CallbackLists == UNION {[1..n -> Kinds] : n \in 0..MaxObservers}

\* the queues of the items 1..n, each with any status
RECURSIVE StatusQueues(_)
StatusQueues(n) ==
    IF n = 0 THEN {<<>>}
    ELSE {Append(q, [Item(n) EXCEPT !.status = st]) :
             q \in StatusQueues(n - 1), st \in Statuses}

InitNotify ==
    /\ tracking = FALSE
    /\ \E n \in 0..MaxItems : queue \in StatusQueues(n) /\ next_id = n + 1
    /\ current_tasks = [i \in IDs |-> "none"]
    /\ dispatches = EmptyBag
    /\ worker_pc = "idle"
    /\ limit = 1
    /\ lock = "free"
    /\ callbacks \in CallbackLists
    /\ last_call = NoCall
    /\ cancelled_waiting = Unrecorded
    /\ exported = NoFile
    /\ snapshot = NoSnapshot
    /\ file_path = [i \in IDs |-> ""]
    /\ event_loop = "none"
    /\ completed_at = Unrecorded
    /\ loops = 0

\* one call of a public operation that notifies, from each of these states
NextNotify ==
    /\ last_call = NoCall
    /\ \/ ManagerCall
       \/ \E id \in IDs, progress \in Progresses : UpdateProgress(id, progress)

SpecNotify == InitNotify /\ [][NextNotify]_vars

\* the admission loop of the worker over a queue whose items are added and
\* change status at any time
NextAdmission ==
    \/ WorkerStep
    \/ add_item
    \/ \E id \in IDs, status \in Statuses : UpdateStatus(id, status)

SpecAdmission == Init /\ [][NextAdmission]_vars

\* the admission loop with start requests made at any time
NextStart ==
    \/ NextAdmission
    \/ StartAgain

SpecStart == Init /\ [][NextStart]_vars

\* the admission loop while the limit is changed through the settings
NextSettings ==
    \/ NextAdmission
    \/ \E value \in Requested :
          \/ set_max_concurrent_downloads(value)
          \/ settings_set(value)
          \/ settings_update(value)
    \/ reset_to_defaults

SpecSettings == InitSettings /\ [][NextSettings]_vars

\* ------------------------------------------------ the contract of each call
\* the messages update_item_status may have stored
Messages == {"", "failed"}

\* the items a queue can hold, with every combination of status, progress,
\* message and retry count (a caller may add any QueueItem, and
\* update_item_status / update_item_progress are public)
ContractItems(id) ==
    {[Item(id) EXCEPT !.status = st, !.progress = pr, !.error_message = msg,
                      !.retry_count = rc] :
        st \in Statuses, pr \in Progresses, msg \in Messages, rc \in 0..(MaxRetry - 1)}

\* the queues of n items with the ids 1..n
RECURSIVE ContractQueues(_)
ContractQueues(n) ==
    IF n = 0 THEN {<<>>}
    ELSE {Append(q, it) : q \in ContractQueues(n - 1), it \in ContractItems(n)}

InitContract ==
    /\ tracking = TRUE
    /\ \E n \in 0..MaxItems : queue \in ContractQueues(n) /\ next_id = n + 1
    /\ current_tasks = [i \in IDs |-> "none"]
    /\ dispatches = EmptyBag
    /\ worker_pc = "idle"
    /\ limit = 1
    /\ lock = "free"
    /\ callbacks \in {<<>>, <<"reads">>}
    /\ last_call = NoCall
    /\ cancelled_waiting = Unrecorded
    /\ exported = NoFile
    /\ snapshot = NoSnapshot
    /\ file_path = [i \in IDs |-> ""]
    /\ event_loop = "none"
    /\ completed_at = Unrecorded
    /\ loops = 0

\* one call of the manager, made in any state of the queue
NextContract == last_call = NoCall /\ ManagerCall

SpecContract == InitContract /\ [][NextContract]_vars

\* ------------------------------------------------------ export and import
\* QueueItem.to_dict
to_dict(it) ==
    [id |-> it.id, source |-> it.source, quality |-> it.quality, is_short |-> it.is_short]

\* a from_dict that leaves the quality at its default
from_dict_default_quality(data) ==
    [Item(data.id) EXCEPT !.source = data.source, !.is_short = data.is_short]

\* QueueItem.from_dict: a default item, then the keys of the dict, id included
from_dict(data) ==
    [Item(data.id) EXCEPT !.source = data.source, !.quality = data.quality,
                          !.is_short = data.is_short]

\* the statuses export_queue writes
Exportable == {WAITING, ERROR}

\* QueueManager.export_queue (reads the queue without the lock); the file is
\* written and read back as JSON, which keeps strings and booleans
export_queue ==
    /\ LET items == SelectSeq(queue, LAMBDA it : it.status \in Exportable)
       IN  exported' = [written |-> TRUE,
                        items |-> [k \in 1..Len(items) |-> to_dict(items[k])]]
    /\ last_call' = Call("export_queue", 0, "true")
    /\ UNCHANGED <<completed_at, event_loop, file_path, snapshot, loops, tracking, cancelled_waiting, queue, next_id, current_tasks, dispatches, worker_pc, limit, lock, callbacks>>

\* QueueManager.import_queue: nothing is added when the file is missing or its
\* list is empty; otherwise add_items of the items rebuilt by from_dict, with
\* status Waiting and progress 0
import_queue ==
    /\ LET items == exported.items
       IN  IF items = <<>>
           THEN /\ last_call' = Call("import_queue", 0, 0)
                /\ UNCHANGED queue
           ELSE /\ lock = "free"
                /\ Len(queue) + Len(items) <= MaxItems
                /\ queue' = queue \o [k \in 1..Len(items) |->
                                [from_dict(items[k]) EXCEPT !.status = WAITING, !.progress = 0]]
                /\ last_call' = Notified("import_queue", 0, Len(items),
                                          notify_callbacks(callbacks, FALSE))
    /\ UNCHANGED <<completed_at, event_loop, file_path, snapshot, loops, exported, tracking, cancelled_waiting, next_id, current_tasks, dispatches, worker_pc, limit, lock, callbacks>>

\* the process ends and is started again: a new QueueManager, the file stays
\* (next_id stays, as new uuids differ from the old ones)
Restart ==
    /\ queue' = <<>>
    /\ current_tasks' = [i \in IDs |-> "none"]
    /\ dispatches' = EmptyBag
    /\ worker_pc' = "idle"
    /\ lock' = "free"
    /\ callbacks' = <<>>
    /\ snapshot' = NoSnapshot
    /\ file_path' = [i \in IDs |-> ""]
    /\ event_loop' = "none"
    /\ completed_at' = IF completed_at = Unrecorded THEN Unrecorded ELSE {}
    /\ loops' = 0
    /\ last_call' = Step
    /\ UNCHANGED <<exported, tracking, cancelled_waiting, next_id, limit>>

\* two descriptors that differ in every exported field
Payloads ==
    {[source |-> "a", quality |-> "best_opus", is_short |-> FALSE],
     [source |-> "b", quality |-> "mp3_320", is_short |-> TRUE]}

\* the items a queue can hold, with every combination of status, progress and
\* descriptor
ExportItems(id) ==
    {[Item(id) EXCEPT !.status = st, !.progress = pr, !.source = pl.source,
                      !.quality = pl.quality, !.is_short = pl.is_short] :
        st \in Statuses, pr \in Progresses, pl \in Payloads}

RECURSIVE ExportQueues(_)
ExportQueues(n) ==
    IF n = 0 THEN {<<>>}
    ELSE {Append(q, it) : q \in ExportQueues(n - 1), it \in ExportItems(n)}

InitExport ==
    /\ tracking = TRUE
    /\ \E n \in 0..MaxItems : queue \in ExportQueues(n) /\ next_id = n + 1
    /\ current_tasks = [i \in IDs |-> "none"]
    /\ dispatches = EmptyBag
    /\ worker_pc = "idle"
    /\ limit = 1
    /\ lock = "free"
    /\ callbacks = <<>>
    /\ last_call = NoCall
    /\ cancelled_waiting = Unrecorded
    /\ exported = NoFile
    /\ snapshot = NoSnapshot
    /\ file_path = [i \in IDs |-> ""]
    /\ event_loop = "none"
    /\ completed_at = Unrecorded
    /\ loops = 0

NextExport ==
    \/ export_queue
    \/ import_queue
    \/ Restart

SpecExport == InitExport /\ [][NextExport]_vars

\* The scenario of five queued items under a limit of two: the worker is
\* started on the five Waiting items; the engine reports progress and never
\* finishes; the user may cancel.
ScenarioIDs == {1, 2, 3, 4, 5}

InitScenario ==
    /\ queue = <<Item(1), Item(2), Item(3), Item(4), Item(5)>>
    /\ next_id = 6
    /\ current_tasks = [i \in ScenarioIDs |-> "none"]
    /\ dispatches = EmptyBag
    /\ worker_pc = "idle"
    /\ limit = 2
    /\ lock = "free"
    /\ callbacks = <<>>
    /\ last_call = Untraced
    /\ cancelled_waiting = Unrecorded
    /\ exported = NoFile
    /\ snapshot = NoSnapshot
    /\ file_path = [i \in ScenarioIDs |-> ""]
    /\ event_loop = "none"
    /\ completed_at = Unrecorded
    /\ loops = 0
    /\ tracking = FALSE

ScenarioThreadStep ==
    \E d \in BagToSet(dispatches) :
        \/ DownloadBegin(d)
        \/ HookEnter(d, "downloading")
        \/ \E progress \in Progresses : HookProgress(d, progress)
        \/ HookSetDownloading(d)
        \/ HookCancelled(d)

NextScenario ==
    \/ WorkerStep
    \/ TaskStep
    \/ ScenarioThreadStep
    \/ \E id \in ScenarioIDs : cancel_download(id)
    \/ cancel_all

SpecScenario ==
    /\ InitScenario
    /\ [][NextScenario]_vars
    /\ WF_vars(WorkerStep)
    /\ WF_vars(TaskStep)
    /\ WF_vars(ScenarioThreadStep)

\* the loop runs a ready coroutine, and executor threads make progress
SpecFair ==
    /\ Spec
    /\ WF_vars(WorkerStep)
    /\ WF_vars(TaskStep)
    /\ WF_vars(ThreadStep)

\* ---------------------------------------------------------------- claims
\* C1: the number of items that are Processing or Downloading
\* (get_active_downloads) never exceeds the configured max_concurrent_downloads.
C1_ConcurrencyCap == get_active_downloads(queue) <= limit

\* the engine invocations in flight for an id
Invocations(id) ==
    LET ds == {d \in BagToSet(dispatches) : d.id = id /\ d.pc \in EnginePcs}
        count[S \in SUBSET ds] ==
            IF S = {} THEN 0
            ELSE LET d == CHOOSE d \in S : TRUE
                 IN  CopiesIn(d, dispatches) + count[S \ {d}]
    IN  count[ds]

\* C2: for every item id at most one extraction-engine invocation is in
\* flight at any instant.
C2_OneInvocationPerItem == \A id \in IDs : Invocations(id) <= 1

\* C3: with the worker running, whenever some item is Waiting and fewer items
\* than the limit are Processing or Downloading, a Waiting item eventually
\* becomes Processing (fair scheduling of the loop, the tasks and the threads).
\* Runs in which a manager call blocks with the lock held are left aside: the
\* claim is not held to them.
HasStatus(st) == \E k \in 1..Len(queue) : queue[k].status = st

C3_WaitingIsAdmitted ==
    (worker_pc # "idle" /\ HasStatus(WAITING) /\ can_start_download(queue, limit))
        ~> (HasStatus(PROCESSING) \/ lock = "stuck")

\* C4: starting the worker on five Waiting items with a limit of two and an
\* engine that reports progress without finishing leads to exactly two items
\* Downloading and the other three Waiting.  (A run in which the user cancels
\* something is left aside: the claim is not held to it.)
CountStatus(st) == Cardinality({k \in 1..Len(queue) : queue[k].status = st})

C4_TwoDownloadingThreeWaiting ==
    (worker_pc = "check" /\ CountStatus(WAITING) = 5 /\ dispatches = EmptyBag)
        ~> \/ CountStatus(DOWNLOADING) = 2 /\ CountStatus(WAITING) = 3
           \/ HasStatus(CANCELLED)

\* C5: when the worker dispatches an item, that item is Waiting and no item
\* inserted before it is Waiting; the worker finds no item only when none is
\* Waiting.
Created(bag, id) ==
    IF Task(id, "created") \in BagToSet(bag) THEN CopiesIn(Task(id, "created"), bag) ELSE 0

C5_FifoAdmission ==
    [][worker_pc = "admit" =>
          /\ \A id \in IDs :
                Created(dispatches', id) > Created(dispatches, id) =>
                    \E k \in 1..Len(queue) :
                        /\ queue[k].id = id
                        /\ queue[k].status = WAITING
                        /\ \A j \in 1..(k - 1) : queue[j].status # WAITING
          /\ worker_pc' = "sleep" => ~HasStatus(WAITING)]_vars

\* A is dispatched while B, added after it, is still Waiting
C5_Witness ==
    /\ Len(queue) = 2
    /\ queue[1].status = WAITING /\ queue[2].status = WAITING
    /\ Created(dispatches, queue[1].id) = 1
    /\ worker_pc = "check"

\* the status of the item with this id, "absent" when it is not in the queue
StatusOf(q, id) == IF IndexOf(q, id) = 0 THEN "absent" ELSE q[IndexOf(q, id)].status

\* C6: once an item is Done or Cancelled its status never changes while it
\* stays in the queue.
C6_TerminalIsFinal ==
    [][\A id \in IDs :
          (StatusOf(queue, id) \in {DONE, CANCELLED} /\ StatusOf(queue', id) # "absent")
              => StatusOf(queue', id) = StatusOf(queue, id)]_vars

\* C7: cancel_download on a Downloading or Processing item returns true (when
\* it returns), sets the status to Cancelled and raises the flag of the
\* extraction in flight, and the flag stays raised until that extraction ends.
C7_CancelRaisesFlag ==
    [][\A id \in IDs :
          /\ (/\ last_call'.op = "cancel_download" /\ last_call'.id = id
              /\ StatusOf(queue, id) \in {DOWNLOADING, PROCESSING})
                => /\ last_call'.val \in {"true", "blocked"}
                   /\ StatusOf(queue', id) = CANCELLED
                   /\ Invocations(id) > 0 => is_cancelled(current_tasks', id)
          /\ (is_cancelled(current_tasks, id) /\ Invocations(id) > 0
                /\ \E d \in BagToSet(dispatches) \cap BagToSet(dispatches') :
                      d.id = id /\ d.pc \in EnginePcs)
                => is_cancelled(current_tasks', id)]_vars

\* C8: cancel_download returns false and changes nothing when no item with
\* the id is Downloading or Processing (absent, Cancelled, Done, ...).
C8_CancelRejected ==
    [][\A id \in IDs :
          (/\ last_call'.op = "cancel_download" /\ last_call'.id = id
           /\ ~\E k \in 1..Len(queue) :
                 queue[k].id = id /\ queue[k].status \in {DOWNLOADING, PROCESSING})
            => /\ last_call'.val = "false"
               /\ UNCHANGED <<queue, next_id, current_tasks, dispatches, worker_pc,
                              limit, lock, callbacks, cancelled_waiting, exported,
                              tracking, snapshot, loops>>]_vars

\* cancel_download was just refused for an item that is already Cancelled
C8_Witness ==
    /\ last_call.op = "cancel_download" /\ last_call.val = "false"
    /\ StatusOf(queue, last_call.id) = CANCELLED

\* C9: an item that was Waiting when cancel_all ran stays Cancelled: it never
\* becomes Processing, Downloading, Converting or Done, and the engine is not
\* invoked for it.
C9_CancelledWaitingNeverStarts ==
    \A id \in cancelled_waiting \ Unrecorded :
        StatusOf(queue, id) \in {CANCELLED, "absent"}

\* C10: cancel_all sets every Waiting, Processing or Downloading item to
\* Cancelled, raises the flag of each of them that has an extraction in
\* flight, leaves the other items unchanged, and leaves no active and no
\* pending item.
C10_CancelAll ==
    [][last_call'.op = "cancel_all" =>
          /\ Len(queue') = Len(queue)
          /\ \A k \in 1..Len(queue) :
                /\ queue'[k].id = queue[k].id
                /\ queue'[k].status =
                      IF queue[k].status \in {WAITING, PROCESSING, DOWNLOADING}
                      THEN CANCELLED ELSE queue[k].status
                /\ (queue[k].status \in {WAITING, PROCESSING, DOWNLOADING}
                      /\ Invocations(queue[k].id) > 0)
                      => is_cancelled(current_tasks', queue[k].id)
          /\ get_active_downloads(queue') = 0
          /\ get_pending_count(queue') = 0]_vars

\* C11: when an explicit cancel request has raised the flag of an item while
\* its extraction is in flight and the engine invokes the progress callback of
\* that extraction again, the callback aborts it, and the dispatch then records
\* the status Cancelled.
C11_CancelAborts ==
    [][\A d \in BagToSet(dispatches) :
          d.asked =>
            /\ d.pc = "running" =>
                  \A p \in {"hook_progress", "hook_finished"} :
                      dispatches' # Move(dispatches, d, p)
            /\ (d.pc = "hook_cancel" /\ dispatches' = Move(dispatches, d, "returned")
                  /\ StatusOf(queue', d.id) # "absent")
                  => StatusOf(queue', d.id) = CANCELLED]_vars

\* C12: retry_item returns false and changes nothing when the id is absent or
\* its item is not in Error; on an Error item it returns true, sets the status
\* to Waiting and the progress to 0, clears the message and adds exactly 1 to
\* retry_count, leaving every other item as it was.
C12_RetryItem ==
    [][\A id \in IDs :
          (last_call'.op = "retry_item" /\ last_call'.id = id) =>
              IF StatusOf(queue, id) = ERROR
              THEN /\ last_call'.val = "true"
                   /\ Len(queue') = Len(queue)
                   /\ \A k \in 1..Len(queue) :
                         queue'[k] =
                            IF k = IndexOf(queue, id)
                            THEN [queue[k] EXCEPT !.status = WAITING, !.progress = 0,
                                                  !.error_message = "",
                                                  !.retry_count = queue[k].retry_count + 1]
                            ELSE queue[k]
              ELSE /\ last_call'.val = "false"
                   /\ queue' = queue]_vars

\* C13: retry_all_failed returns the number of items that were in Error,
\* applies the reset of retry_item (Waiting, progress 0, message cleared,
\* retry_count + 1) to each of them, leaves every other item and the order of
\* the queue unchanged, and returns with the lock released.
C13_RetryAllFailed ==
    [][last_call'.op = "retry_all_failed" =>
          /\ last_call'.val = CountStatus(ERROR)
          /\ lock' = "free"
          /\ Len(queue') = Len(queue)
          /\ \A k \in 1..Len(queue) :
                queue'[k] =
                    IF queue[k].status = ERROR
                    THEN [queue[k] EXCEPT !.status = WAITING, !.progress = 0,
                                          !.error_message = "",
                                          !.retry_count = queue[k].retry_count + 1]
                    ELSE queue[k]]_vars

\* retry_all_failed has reset the one Error item of a queue of two, with a
\* callback registered
C13_Witness ==
    /\ last_call.op = "retry_all_failed" /\ last_call.val = 1
    /\ observers = 1
    /\ Len(queue) = 2
    /\ queue[1].status = DONE /\ queue[1].progress = 40
    /\ queue[2].status = WAITING /\ queue[2].retry_count = 1 /\ queue[2].progress = 0

\* C14: remove_item on an id present in the queue terminates and returns true
\* with the item gone, whatever its status (Downloading included); on an
\* absent id it returns false and changes nothing.  (Calls made with a
\* callback registered are left aside here: they are the subject of C15.)
C14_RemoveItem ==
    [][\A id \in IDs :
          (last_call'.op = "remove_item" /\ last_call'.id = id /\ observers = 0) =>
              IF IndexOf(queue, id) # 0
              THEN /\ last_call'.val = "true"
                   /\ lock' = "free"
                   /\ queue' = RemoveAt(queue, IndexOf(queue, id))
              ELSE /\ last_call'.val = "false"
                   /\ queue' = queue]_vars

\* C15: no callback is invoked while the lock is held: with a callback
\* registered that calls back into the manager, every call of a public
\* operation completes and leaves the lock free.  (remove_item on a
\* Downloading item is left aside here: it is the subject of C14.)
C15_NotifyOutsideLock ==
    [][(/\ observers > 0
        /\ last_call'.op \notin {"none", "untraced"}
        /\ ~(last_call'.op = "remove_item"
                /\ StatusOf(queue, last_call'.id) = DOWNLOADING))
          => lock' = "free"]_vars

\* C16: clear_completed removes exactly the Done and Cancelled items, keeps
\* every other item unchanged and in its relative order, and returns the
\* number of items that remain.
C16_ClearCompleted ==
    [][last_call'.op = "clear_completed" =>
          LET kept == {k \in 1..Len(queue) : queue[k].status \notin {DONE, CANCELLED}}
              rank(k) == Cardinality({j \in kept : j <= k})
          IN  /\ Len(queue') = Cardinality(kept)
              /\ \A k \in kept : queue'[rank(k)] = queue[k]
              /\ last_call'.val = Cardinality(kept)
              /\ lock' = "free"]_vars

\* clear_completed has dropped the first of two items and kept the second, an
\* Error item with its progress and message
C16_Witness ==
    /\ last_call.op = "clear_completed" /\ last_call.val = 1
    /\ Len(queue) = 1
    /\ queue[1].id = 2 /\ queue[1].status = ERROR
    /\ queue[1].progress = 40 /\ queue[1].error_message = "failed"

\* C17: get_global_progress returns (0, 0, 0) on an empty queue; otherwise its
\* percentage is the sum of 100 for each Done item and of the current progress
\* of every other item (Error and Cancelled included) divided by the number of
\* items, and its counts are the numbers of Done and of Error items.
C17_GlobalProgress ==
    LET r == get_global_progress(queue)
        share(it) == IF it.status = DONE THEN 100 ELSE it.progress
    IN  /\ r.completed = CountStatus(DONE)
        /\ r.failed = CountStatus(ERROR)
        /\ IF queue = <<>>
           THEN r.percent_n = 0
           ELSE r.percent_n * Len(queue) = SumOver(queue, share) * r.percent_d

\* C18: after any sequence of add_item, add_items and remove_item calls the
\* ids of the queued items are pairwise distinct, and the queue grows by one
\* with add_item, by the number of items given with add_items, shrinks by one
\* with a remove_item that returns true and keeps its length with one that
\* returns false (so its length is the number of items added and not removed).
C18_UniqueIds ==
    [][/\ \A j, k \in 1..Len(queue') : queue'[j].id = queue'[k].id => j = k
       /\ last_call'.op = "add_item" => Len(queue') = Len(queue) + 1
       /\ last_call'.op = "add_items" => Len(queue') = Len(queue) + last_call'.val
       /\ last_call'.op = "remove_item" =>
             /\ last_call'.val = "true" =>
                   /\ Len(queue') = Len(queue) - 1
                   /\ StatusOf(queue', last_call'.id) = "absent"
             /\ last_call'.val = "false" => Len(queue') = Len(queue)]_vars

\* two items were added, the first was removed, and remove_item of the first
\* is refused: the queue holds the second item only
C18_Witness ==
    /\ last_call = [op |-> "remove_item", id |-> 1, val |-> "false", invoked |-> {}, ended |-> "returned"]
    /\ next_id = 3
    /\ Len(queue) = 1 /\ queue[1].id = 2

\* C19: every item import_queue adds has an id that differs from the id
\* stored in the file for it and from the id of every item already in the
\* queue.
C19_ImportFreshIds ==
    [][last_call'.op = "import_queue" =>
          \A k \in (Len(queue) + 1)..Len(queue') :
              /\ queue'[k].id # exported.items[k - Len(queue)].id
              /\ \A j \in 1..Len(queue) : queue'[k].id # queue[j].id]_vars

\* C20: export_queue writes one entry for each Waiting or Error item and for
\* no other, in queue order, with the descriptor, quality and is_short of the
\* item; import_queue into an empty queue yields one item for each entry of
\* the file, in order, Waiting with progress 0 and with the descriptor,
\* quality and is_short of the entry.
C20_RoundTrip ==
    [][/\ last_call'.op = "export_queue" =>
             LET sel == {k \in 1..Len(queue) : queue[k].status \in {WAITING, ERROR}}
                 rank(k) == Cardinality({j \in sel : j <= k})
             IN  /\ Len(exported'.items) = Cardinality(sel)
                 /\ \A k \in sel :
                       /\ exported'.items[rank(k)].source = queue[k].source
                       /\ exported'.items[rank(k)].quality = queue[k].quality
                       /\ exported'.items[rank(k)].is_short = queue[k].is_short
       /\ (last_call'.op = "import_queue" /\ queue = <<>> /\ exported.written) =>
             /\ Len(queue') = Len(exported.items)
             /\ last_call'.val = Len(exported.items)
             /\ \A k \in 1..Len(exported.items) :
                   /\ queue'[k].status = WAITING
                   /\ queue'[k].progress = 0
                   /\ queue'[k].source = exported.items[k].source
                   /\ queue'[k].quality = exported.items[k].quality
                   /\ queue'[k].is_short = exported.items[k].is_short]_vars

\* a queue was exported with one entry, the process was started again and the
\* file imported into the empty queue: one Waiting item at progress 0 with the
\* descriptor, quality and is_short of the entry
C20_Witness ==
    /\ last_call = [op |-> "import_queue", id |-> 0, val |-> 1, invoked |-> {}, ended |-> "returned"]
    /\ Len(exported.items) = 1
    /\ queue = <<[from_dict(exported.items[1]) EXCEPT !.status = WAITING]>>
    /\ queue[1].source = "b" /\ queue[1].quality = "mp3_320" /\ queue[1].is_short
\* C21: a list returned by get_queue is isolated from the manager: the items
\* it holds keep the field values they had when it was returned, whatever the
\* manager does afterwards, and the list keeps its items when the manager's
\* queue gains or loses items.
C21_SnapshotIsolated ==
    snapshot.taken =>
        /\ Len(snapshot.refs) = Len(snapshot.seen)
        /\ \A k \in 1..Len(snapshot.refs) :
              LET j == IndexOf(queue, snapshot.refs[k])
              IN  j # 0 => queue[j] = snapshot.seen[k]
\* C22 (as stated): a call of remove_item, cancel_download, retry_item,
\* get_item, update_item_progress, update_item_status or is_cancelled with an
\* id that is not in the queue does not raise, returns false / none, and
\* leaves the queue and its items unchanged.
C22_AbsentIdAsStated ==
    [][\A id \in IDs :
          (IndexOf(queue, id) = 0 /\ last_call'.id = id) =>
              /\ last_call'.ended # "raised"
              /\ last_call'.op \in {"remove_item", "cancel_download", "retry_item",
                                    "is_cancelled"}
                    => last_call'.val = "false"
              /\ last_call'.op = "get_item" => last_call'.val = "none"
              /\ last_call'.op \in {"remove_item", "cancel_download", "retry_item",
                                    "is_cancelled", "get_item", "update_item_progress"}
                    => queue' = queue]_vars

\* C22 (amended): the same, except that is_cancelled answers from the
\* registry: true exactly when the id is registered with its flag raised
\* (an item cancelled while its extraction was in flight, then removed);
\* and no call of this kind, update_item_status included, brings an id into
\* the queue that was not in it.
C22_AbsentIdTolerated ==
    [][/\ \A k \in 1..Len(queue') : IndexOf(queue, queue'[k].id) # 0
       /\ \A id \in IDs :
          (IndexOf(queue, id) = 0 /\ last_call'.id = id) =>
              /\ last_call'.ended # "raised"
              /\ last_call'.op \in {"remove_item", "cancel_download", "retry_item"}
                    => last_call'.val = "false"
              /\ last_call'.op = "is_cancelled"
                    => (last_call'.val = "true" <=> current_tasks[id] = "true")
              /\ last_call'.op = "get_item" => last_call'.val = "none"
              /\ last_call'.op \in {"remove_item", "cancel_download", "retry_item",
                                    "is_cancelled", "get_item", "update_item_progress"}
                    => queue' = queue]_vars

\* is_cancelled has answered true for an id whose item is no longer queued
C22_Witness ==
    /\ last_call.op = "is_cancelled" /\ last_call.val = "true"
    /\ IndexOf(queue, last_call.id) = 0
    /\ Len(queue) > 0
\* C23: every call that changes the queue is followed by an invocation of
\* every registered observer, and with no observer registered every call
\* completes.
C23_EveryObserverNotified ==
    [][(last_call'.op \notin {"none", "untraced", "add_callback"}) =>
          /\ queue' # queue => last_call'.invoked = 1..Len(callbacks)
          /\ callbacks = <<>> => last_call'.ended = "returned"]_vars

\* the callbacks of the list, each raising one replaced by one that returns
Calm(cbs) == [k \in 1..Len(cbs) |-> IF cbs[k] = "raises" THEN "returns" ELSE cbs[k]]

\* C24: an observer that raises during a notification changes nothing: the
\* exception does not reach the caller of the operation, the mutation is
\* made (add_item has appended its item, cancel_all has left no item
\* Waiting, Processing or Downloading, clear_completed no item Done or
\* Cancelled), and the observers invoked are the ones that would have been
\* invoked had it returned: all of them when the call does not block.
C24_RaisingObserverIsolated ==
    [][(/\ last_call'.op \notin {"none", "untraced", "add_callback"}
        /\ \E k \in 1..Len(callbacks) : callbacks[k] = "raises") =>
          /\ last_call'.ended # "raised"
          /\ \A h \in BOOLEAN :
                notify_callbacks(callbacks, h) = notify_callbacks(Calm(callbacks), h)
          /\ (last_call'.ended = "returned" /\ last_call'.invoked # {})
                => last_call'.invoked = 1..Len(callbacks)
          /\ last_call'.op = "add_item" =>
                /\ Len(queue') = Len(queue) + 1
                /\ last_call'.invoked = 1..Len(callbacks)
          /\ last_call'.op = "cancel_all" =>
                /\ \A k \in 1..Len(queue') : queue'[k].status \notin CancelAllStatuses
                /\ last_call'.invoked = 1..Len(callbacks)
          /\ last_call'.op = "clear_completed" =>
                /\ \A k \in 1..Len(queue') : queue'[k].status \notin Completed
                /\ last_call'.invoked = 1..Len(callbacks)]_vars

\* add_item has returned the id with a raising observer registered before a
\* second observer, and both were invoked
C24_Witness ==
    /\ last_call.op = "add_item" /\ last_call.val = "id"
    /\ callbacks = <<"raises", "returns">>
    /\ last_call.invoked = {1, 2}
    /\ Len(queue) = 1
\* C25: whatever the number of start requests, at most one control loop
\* polls the queue.
C25_OneControlLoop == loops <= 1
\* C26: the limit can_start_download uses is an integer of 1..5 whatever
\* settings operation changed it last, and an admission check admits exactly
\* when the number of Downloading and Processing items is below the limit
\* as it is at that check.
C26_LimitInRange ==
    [][/\ limit' \in MinLimit..MaxConcurrent
       /\ (worker_pc = "check" /\ worker_pc' # "check") =>
              (worker_pc' = "admit" <=> get_active_downloads(queue) < limit)]_vars
\* the engine invocations in flight, whatever their item
InFlight ==
    LET count[S \in SUBSET IDs] ==
            IF S = {} THEN 0
            ELSE LET id == CHOOSE id \in S : TRUE
                 IN  Invocations(id) + count[S \ {id}]
    IN  count[IDs]

\* C27: the number of extraction-engine invocations in flight, counted
\* whatever the status of their item and whether or not it is still queued,
\* never exceeds the configured concurrency limit.
C27_InvocationsWithinLimit == InFlight <= limit

\* C28: every status change of an item that stays in the queue is one of the
\* transitions of the table: Waiting to Processing, Processing to
\* Downloading, Downloading to Converting, Processing / Downloading /
\* Converting to Done or Error, Waiting / Processing / Downloading to
\* Cancelled, Error to Waiting.
C28_OnlyTableTransitions ==
    [][LET table ==
               {<<WAITING, PROCESSING>>, <<PROCESSING, DOWNLOADING>>,
                <<DOWNLOADING, CONVERTING>>, <<ERROR, WAITING>>}
                   \cup ({PROCESSING, DOWNLOADING, CONVERTING} \X {DONE, ERROR})
                   \cup ({WAITING, PROCESSING, DOWNLOADING} \X {CANCELLED})
       IN  \A id \in IDs :
               (/\ StatusOf(queue, id) # "absent" /\ StatusOf(queue', id) # "absent"
                /\ StatusOf(queue', id) # StatusOf(queue, id))
                   => <<StatusOf(queue, id), StatusOf(queue', id)>> \in table]_vars

\* DownloadWorker._download_item when download_async raises before the
\* download runs (run_in_executor refuses the job, its executor being shut
\* down): the entry was registered, the except branch records the error with
\* update_item_status and the task ends; the branch does not delete the entry
TaskSubmitFails(d) ==
    /\ LoopFree
    /\ d.pc = "created"
    /\ lock = "free"
    /\ current_tasks' = [current_tasks EXCEPT ![d.id] = "false"]
    /\ completed_at' = Stamp(d.id, ERROR)
    /\ queue' = update_item_status(queue, d.id, ERROR, "failed")
    /\ dispatches' = dispatches (-) SetToBag({d})
    /\ last_call' = Step
    /\ UNCHANGED <<event_loop, file_path, snapshot, loops, exported, tracking, cancelled_waiting, next_id, worker_pc, limit, lock, callbacks>>

TaskRaises == \E d \in BagToSet(dispatches) : TaskSubmitFails(d)

NextDispatch ==
    \/ Next
    \/ TaskRaises

\* the system with the dispatches that end in _download_item's except branch
SpecDispatch == Init /\ [][NextDispatch]_vars

\* C30: whenever no dispatch of an id is left (each one has finished, with
\* whatever outcome), the cancellation-flag registry holds no entry for
\* that id.
C30_RegistryCleared ==
    \A id \in IDs :
        (\A d \in BagToSet(dispatches) : d.id # id) => current_tasks[id] = "none"

\* the worker and its dispatches, the engine reporting no progress, with the
\* accesses that take no lock: the write of file_path by download and the
\* read of the queue by export_queue; items are added and removed and an
\* observer is registered at any time
NextAccess ==
    \/ add_callback
    \/ add_item
    \/ \E id \in IDs : remove_item(id)
    \/ WorkerStep
    \/ TaskStep
    \/ \E d \in BagToSet(dispatches) :
            \/ DownloadBegin(d)
            \/ DownloadStoreFile(d)
            \/ EngineDone(d)
            \/ \E m \in BOOLEAN : EngineFail(d, m)
    \/ export_queue

SpecAccess == Init /\ [][NextAccess]_vars

\* C29: the reads and writes of the queue and of its items made by the worker,
\* a dispatch, the progress callback or export are made holding the lock, so
\* none is made while another call holds it (export writes its file only
\* when the lock can be taken), and no field of an item is written directly:
\* file_path, which no QueueManager operation writes, never changes.
C29_AccessUnderLock ==
    [][/\ exported' # exported => lock = "free"
       /\ file_path' = file_path]_vars

\* app.py start_worker, when no worker thread is alive: a new thread makes a
\* new event loop and runs `loop.run_until_complete(worker.start())`, which
\* creates the _process_queue task on that loop
start_worker ==
    /\ worker_pc = "idle" \/ event_loop = "closed"
    /\ worker_pc' = "check"
    /\ event_loop' = "until_started"
    /\ loops' = 1
    /\ last_call' = Step
    /\ UNCHANGED <<completed_at, file_path, snapshot, exported, tracking, cancelled_waiting, queue, next_id, current_tasks, dispatches, limit, lock, callbacks>>

\* run_until_complete returns: start() has returned, the _process_queue task
\* has run up to its first `await asyncio.sleep`, the loop stops and the
\* thread ends; the tasks of that loop stay pending
LoopReturns ==
    /\ worker_pc = "sleep"
    /\ event_loop = "until_started"
    /\ event_loop' = "closed"
    /\ last_call' = Step
    /\ UNCHANGED <<completed_at, file_path, snapshot, loops, exported, tracking, cancelled_waiting, queue, next_id, current_tasks, dispatches, worker_pc, limit, lock, callbacks>>

\* DownloadWorker.stop: `_running = False` and `_task.cancel()`; the control
\* loop leaves its while loop, the _download_item tasks are not touched
WorkerStop ==
    /\ worker_pc \in {"check", "admit", "sleep"}
    /\ worker_pc' = "stopped"
    /\ loops' = 0
    /\ last_call' = Step
    /\ UNCHANGED <<completed_at, event_loop, file_path, snapshot, exported, tracking, cancelled_waiting, queue, next_id, current_tasks, dispatches, limit, lock, callbacks>>

\* the worker started either way and stopped at any time, its dispatches, the
\* engine reporting no progress, and items added at any time
NextWorker ==
    \/ add_item
    \/ WorkerStep
    \/ start_worker
    \/ LoopReturns
    \/ WorkerStop
    \/ TaskStep
    \/ \E d \in BagToSet(dispatches) :
            \/ DownloadBegin(d)
            \/ EngineDone(d)
            \/ \E m \in BOOLEAN : EngineFail(d, m)

SpecWorker == Init /\ [][NextWorker]_vars

\* C31: once started and until stop() is called the control loop goes on
\* polling: its task is never left suspended on an event loop that no longer
\* runs, and no failing dispatch ends it; stop() leaves the dispatches in
\* flight as they are.
C31_PollsUntilStopped ==
    [][/\ worker_pc' \in {"check", "admit", "sleep"} => event_loop' # "closed"
       /\ (worker_pc \in {"check", "admit", "sleep"} /\ worker_pc' \notin {"check", "admit", "sleep"})
              => (worker_pc' = "stopped" /\ dispatches' = dispatches)]_vars

\* the system with completed_at recorded
SpecTimestamps == InitTimestamps /\ [][Next]_vars

\* C32: every item in the queue whose status is Done, Error or Cancelled has
\* completed_at set.
C32_TerminalHasCompletedAt ==
    \A k \in 1..Len(queue) :
        queue[k].status \in {DONE, ERROR, CANCELLED} => queue[k].id \in completed_at

\* the progress of the item with this id, 0 when it is not in the queue
ProgressOf(q, id) == IF IndexOf(q, id) = 0 THEN 0 ELSE q[IndexOf(q, id)].progress

\* the worker, its dispatches and the engine with progress, error_message and
\* retry_count followed, while items are added, all cancelled or retried
NextTracked ==
    \/ add_item
    \/ cancel_all
    \/ \E id \in IDs : retry_item(id)
    \/ WorkerStep
    \/ TaskStep
    \/ ThreadStep

SpecTracked == InitTracked /\ [][NextTracked]_vars

\* C33: while an item's status stays Downloading its progress never
\* decreases, whatever progress events the engine reports.
C33_ProgressMonotonic ==
    [][\A id \in IDs :
          (StatusOf(queue, id) = DOWNLOADING /\ StatusOf(queue', id) = DOWNLOADING)
              => ProgressOf(queue', id) >= ProgressOf(queue, id)]_vars

\* C34: whenever an item's status is Done its progress is 100.
C34_DoneIsComplete ==
    \A k \in 1..Len(queue) : queue[k].status = DONE => queue[k].progress = 100

\* C35: update_item_progress on an item of the queue that is not Downloading
\* yet leaves it Downloading, in the same update that stores the progress.
C35_ProgressPromotes ==
    [][\A id \in IDs :
          (/\ last_call'.op = "update_item_progress" /\ last_call'.id = id
           /\ StatusOf(queue, id) \notin {"absent", DOWNLOADING})
              => StatusOf(queue', id) = DOWNLOADING]_vars

\* C36: an item's error message is non-empty only if its status is Error.
C36_MessageOnlyOnError ==
    \A k \in 1..Len(queue) : queue[k].error_message # "" => queue[k].status = ERROR

\* C37: an item becomes Cancelled only through cancel_download or cancel_all,
\* or through a dispatch whose cancellation flag is raised: the failure of an
\* engine whose flag is not raised is recorded as Error whatever its message.
C37_CancelledOnlyOnRequest ==
    [][\A id \in IDs :
          (StatusOf(queue', id) = CANCELLED /\ StatusOf(queue, id) \notin {CANCELLED, "absent"})
              => \/ last_call'.op \in {"cancel_download", "cancel_all"}
                 \/ current_tasks[id] = "true"]_vars

\* the _download_item tasks that were created and have not run yet
NotStarted ==
    LET ds == {d \in BagToSet(dispatches) : d.pc = "created"}
        count[S \in SUBSET ds] ==
            IF S = {} THEN 0
            ELSE LET d == CHOOSE d \in S : TRUE
                 IN  CopiesIn(d, dispatches) + count[S \ {d}]
    IN  count[ds]

\* C38: after the control loop has created a dispatch task it is suspended
\* before its next admission check, and the tasks created and not yet
\* started never outnumber the concurrency limit.
C38_YieldsAfterDispatch ==
    [][/\ (worker_pc = "admit" /\ dispatches' # dispatches) => worker_pc' = "sleep"
       /\ NotStarted' <= limit']_vars

\* C39: when remove_item returns true for an item that is Processing,
\* Downloading or Converting with an extraction in flight, the cancellation
\* flag of that extraction is raised.
C39_RemoveCancelsExtraction ==
    [][\A id \in IDs :
          (/\ last_call'.op = "remove_item" /\ last_call'.id = id /\ last_call'.val = "true"
           /\ StatusOf(queue, id) \in {PROCESSING, DOWNLOADING, CONVERTING}
           /\ Invocations(id) > 0)
              => current_tasks'[id] = "true"]_vars

\* C40: every item whose status is Waiting has progress 0 and an empty error
\* message.
C40_WaitingIsClean ==
    \A k \in 1..Len(queue) :
        queue[k].status = WAITING => (queue[k].progress = 0 /\ queue[k].error_message = "")
====
